---- MODULE Spec2Model ----
(***************************************************************************)
(* Model of the arXiv chatbot of L3.ipynb: the tool registry, execute_tool, *)
(* the turn loop of process_query and chat_loop around it.                 *)
(*                                                                         *)
(* The language-model backend (client.messages.create) and the world the   *)
(* capabilities talk to (arXiv, the papers directory) are the environment: *)
(* each call draws its outcome from a small set.  Text payloads and        *)
(* tool-call ids are opaque tokens <<n, k>>: block k of the n-th response, *)
(* so that every payload and every id is unique within a conversation.     *)
(***************************************************************************)
EXTENDS Integers, Sequences, FiniteSets, TLC

VARIABLES
    pc,                 \* position of process_query
    messages,           \* the conversation (list of turns)
    assistant_content,  \* the list built during one pass of the while loop
    aliased,            \* indices of messages whose content IS that list object
    response,           \* content of the response the name `response` is bound to
    iter,               \* the list the running for loop iterates over
    idx,                \* position of the for loop in iter (next block)
    process_query,      \* the loop flag of the same name
    content,            \* the block the for loop is handling
    events,             \* what has been printed, in order
    calls,              \* number of client.messages.create calls made
    responses,          \* every response received, in order
    raised,             \* the exception that left process_query, or "none"
    issued,             \* tool_use blocks the model has issued so far
    query,              \* chat_loop's query: the stripped input
    asked,              \* number of inputs chat_loop has read
    chat_out,           \* what chat_loop printed last
    tool_pc,            \* position of an execute_tool call on its own
    raw,                \* result: what the capability returned (line 320)
    result,             \* result: what execute_tool returns
    dirs,               \* directories that exist at or below PAPER_DIR
    files,              \* the papers_info.json files, by their directory
    store_pc,           \* position of a search_papers / extract_info call on its own
    store_arg,          \* the argument of that call
    store_ret,          \* what that call returned
    mapping_tool_function,  \* the names the dict of that name binds
    tools,              \* the list of tool schemas
    tools_arg           \* tools= of the latest client.messages.create call

chatVars == <<query, asked, chat_out>>

toolVars == <<tool_pc, raw, result>>

storeVars == <<dirs, files, store_pc, store_arg, store_ret>>

regVars == <<mapping_tool_function, tools>>

vars == <<pc, messages, assistant_content, aliased, response, iter, idx,
          process_query, content, events, calls, responses, raised, issued,
          query, asked, chat_out, tool_pc, raw, result,
          dirs, files, store_pc, store_arg, store_ret,
          mapping_tool_function, tools, tools_arg>>

----------------------------------------------------------------------------
(* Bounds *)

MaxBlocks == 2      \* content blocks in one response
MaxToolUses == 2    \* tool_use blocks the model issues during one chat_loop
MaxEvents == 7      \* lines printed during one query
MaxQueries == 2     \* inputs typed during one chat_loop
MaxItems == 2       \* elements of a list a capability returns

----------------------------------------------------------------------------
(* Tool layer *)

PLACEHOLDER == "The operation completed but didn't return any results."

\* lines 313-316: the names the dict literal binds
MappingLiteral == {"search_papers", "extract_info"}

\* parameters of the registered callables
Params(name) ==
    IF name = "search_papers" THEN {"topic", "max_results"} ELSE {"paper_id"}

Required(name) ==
    IF name = "search_papers" THEN {"topic"} ELSE {"paper_id"}

\* lines 253-287: the schema list, by name, properties and required
ToolSchemas ==
    << [name |-> "search_papers", properties |-> {"topic", "max_results"},
        required |-> {"topic"}],
       [name |-> "extract_info", properties |-> {"paper_id"},
        required |-> {"paper_id"}] >>

\* values a capability can return: None, a str, an int, a list of scalars,
\* a dict from str keys to scalars (as its items in insertion order)
NoneV == [shape |-> "none"]
StrV(v) == [shape |-> "str", value |-> v]
IntV(n) == [shape |-> "int", value |-> n]
ListV(items) == [shape |-> "list", items |-> items]
DictV(pairs) == [shape |-> "dict", pairs |-> pairs]

\* str(x) of a scalar
\* str() replaced by repr(): a str comes out between quotes
StrOf_Repr(x) == IF x.shape = "str" THEN "'" \o x.value \o "'" ELSE ToString(x.value)

StrOf(x) == IF x.shape = "str" THEN x.value ELSE ToString(x.value)

\* sep.join(l) that takes the elements last to first
RECURSIVE Join_Reversed(_, _)
Join_Reversed(sep, l) ==
    IF Len(l) = 0 THEN ""
    ELSE IF Len(l) = 1 THEN l[1]
    ELSE Join_Reversed(sep, Tail(l)) \o sep \o l[1]

\* sep.join(l) for a list of strings
RECURSIVE Join(_, _)
Join(sep, l) ==
    IF Len(l) = 0 THEN ""
    ELSE IF Len(l) = 1 THEN l[1]
    ELSE l[1] \o sep \o Join(sep, Tail(l))

\* json.dumps of a scalar
DumpScalar(x) == IF x.shape = "str" THEN "\"" \o x.value \o "\"" ELSE ToString(x.value)

\* json.dumps(d, indent=2): one line per item, in the order of the dict
Dumps(pairs) ==
    IF Len(pairs) = 0 THEN "{}"
    ELSE "{\n"
         \o Join(",\n", [i \in 1..Len(pairs) |->
                            "  \"" \o pairs[i][1] \o "\": " \o DumpScalar(pairs[i][2])])
         \o "\n}"

\* lines 322-335 of execute_tool: the raw result to a string; str.join
\* raises TypeError on an element that is not a str
Normalize(r) ==
    IF r.shape = "none" THEN [raised |-> FALSE, result |-> PLACEHOLDER]
    ELSE IF r.shape = "list"
    THEN IF \A i \in 1..Len(r.items) : r.items[i].shape = "str"
         THEN [raised |-> FALSE,
               result |-> Join(", ", [i \in 1..Len(r.items) |-> r.items[i].value])]
         ELSE [raised |-> TRUE, exc |-> "TypeError"]
    ELSE IF r.shape = "dict" THEN [raised |-> FALSE, result |-> Dumps(r.pairs)]
    ELSE [raised |-> FALSE, result |-> StrOf(r)]

NotFound(paper_id) ==
    "There's no saved information related to paper " \o paper_id \o "."

\* what a registered capability can do when called with bound arguments:
\* return a raw value or raise (arXiv unreachable, papers directory missing)
CapabilityOutcomes(name, args) ==
    IF name = "search_papers"
    THEN { [raised |-> FALSE, raw |-> ListV(<<>>)],
           [raised |-> FALSE,
            raw |-> ListV(<<StrV("1310.7911v2"), StrV("2208.00733v1")>>)],
           [raised |-> TRUE, exc |-> "HTTPError"] }
    ELSE { [raised |-> FALSE, raw |-> StrV(NotFound(args.paper_id))],
           [raised |-> TRUE, exc |-> "FileNotFoundError"] }

\* execute_tool(tool_name, tool_args): the set of its possible outcomes
execute_tool(tool_name, tool_args) ==
    IF tool_name \notin mapping_tool_function
    THEN { [raised |-> TRUE, exc |-> "KeyError"] }
    ELSE IF ~ (Required(tool_name) \subseteq DOMAIN tool_args
               /\ DOMAIN tool_args \subseteq Params(tool_name))
    THEN { [raised |-> TRUE, exc |-> "TypeError"] }
    ELSE { IF o.raised THEN o ELSE Normalize(o.raw)
           : o \in CapabilityOutcomes(tool_name, tool_args) }

\* the values an arbitrary capability may return
Scalars == {StrV("1310.7911v2"), StrV("2208.00733v1"), StrV(""), IntV(5)}

Keys == {"title", "published"}

RawValues ==
    {NoneV}
    \cup Scalars
    \cup UNION { {ListV(l) : l \in [1..n -> Scalars]} : n \in 0..MaxItems }
    \cup UNION { {DictV(d) : d \in {e \in [1..n -> Keys \X Scalars] :
                                     \A i, j \in 1..n : i # j => e[i][1] # e[j][1]}}
                 : n \in 0..Cardinality(Keys) }

----------------------------------------------------------------------------
(* Model Gateway *)

\* the tool calls the model may request: a registered tool with its required
\* argument, a registered tool without it, and a name of the tool summary
\* table that mapping_tool_function does not bind
ToolCallShapes == 1..4

ToolCall(i) ==
    CASE i = 1 -> [name |-> "search_papers", input |-> [topic |-> "computers"]]
      [] i = 2 -> [name |-> "extract_info", input |-> [paper_id |-> "1310.7911v2"]]
      [] i = 3 -> [name |-> "extract_info", input |-> <<>>]
      [] OTHER -> [name |-> "get_topic_papers", input |-> [topic |-> "computers"]]

TextBlock(n, k) ==
    [type |-> "text", text |-> <<n, k>>]

ToolUseBlock(n, k, tc) ==
    [type |-> "tool_use", id |-> <<n, k>>, name |-> tc.name, input |-> tc.input]

IsText(b) == b.type = "text"
IsToolUse(b) == b.type = "tool_use"

ToolUseCount(r) == Cardinality({k \in 1..Len(r) : IsToolUse(r[k])})

\* the responses the n-th call can return: 0..MaxBlocks blocks, each a text
\* block (shape 0) or a tool_use block (shape i for ToolCall(i)), with at
\* most `budget` tool_use blocks
Responses(n, budget) ==
    { r \in UNION { { [k \in 1..len |->
                         IF s[k] = 0 THEN TextBlock(n, k)
                         ELSE ToolUseBlock(n, k, ToolCall(s[k]))]
                      : s \in [1..len -> {0} \cup ToolCallShapes] }
                    : len \in 0..MaxBlocks }
      : ToolUseCount(r) <= budget }

\* what client.messages.create can return now
Returnable == Responses(calls + 1, MaxToolUses - issued)

----------------------------------------------------------------------------
(* Input of chat_loop: a line is a sequence of characters *)

\* what the user may type at the prompt
RawInputs ==
    { <<" ", "L", "L", "M", " ">>,
      <<" ", "Q", "u", "i", "t">> }

Whitespace == {" ", "\t", "\n"}

\* str.strip(): leading and trailing whitespace removed
RECURSIVE LStrip(_)
LStrip(s) ==
    IF s # <<>> /\ Head(s) \in Whitespace THEN LStrip(Tail(s)) ELSE s

RECURSIVE RStrip(_)
RStrip(s) ==
    IF s # <<>> /\ s[Len(s)] \in Whitespace
    THEN RStrip(SubSeq(s, 1, Len(s) - 1)) ELSE s

Strip(s) == RStrip(LStrip(s))

\* str.lower() on the letters the inputs use
LowerChar(c) ==
    CASE c = "Q" -> "q" [] c = "U" -> "u" [] c = "I" -> "i" [] c = "T" -> "t"
      [] c = "L" -> "l" [] c = "M" -> "m" [] OTHER -> c

\* Lower without str.lower(): the input is compared as typed
Lower_AsTyped(s) == s

Lower(s) == [i \in 1..Len(s) |-> LowerChar(s[i])]

QUIT == <<"q", "u", "i", "t">>

----------------------------------------------------------------------------
(* process_query *)

Init ==
    /\ pc = "idle"
    /\ messages = <<>>
    /\ assistant_content = <<>>
    /\ aliased = {}
    /\ response = <<>>
    /\ iter = <<>>
    /\ idx = 1
    /\ process_query = TRUE
    /\ content = <<>>
    /\ events = <<>>
    /\ calls = 0
    /\ responses = <<>>
    /\ raised = "none"
    /\ issued = 0
    /\ query = <<>>
    /\ asked = 0
    /\ chat_out = "Type your queries or 'quit' to exit."
    /\ tool_pc = "idle"
    /\ raw = NoneV
    /\ result = ""
    /\ dirs = {}
    /\ files = {}
    /\ store_pc = "idle"
    /\ store_arg = <<>>
    /\ store_ret = NoneV
    /\ mapping_tool_function = MappingLiteral
    /\ tools = ToolSchemas
    /\ tools_arg = <<>>

\* ProcessQuery with a conversation that outlives the call: the user turn is
\* appended to what the previous query left
ProcessQuery_KeepsHistory(q) ==
    /\ pc = "idle"
    /\ messages' = Append(messages, [role |-> "user", content |-> q])
    /\ pc' = "create_first"
    /\ UNCHANGED <<assistant_content, aliased, response, iter, idx,
                   process_query, content, events, calls, responses, raised, issued>>

\* line 382: messages = [{'role': 'user', 'content': query}]
ProcessQuery(q) ==
    /\ pc = "idle"
    /\ messages' = << [role |-> "user", content |-> q] >>
    /\ pc' = "create_first"
    /\ UNCHANGED <<assistant_content, aliased, response, iter, idx,
                   process_query, content, events, calls, responses, raised, issued>>

\* lines 384-389: the first client.messages.create returns
CreateFirst(r) ==
    /\ pc = "create_first"
    /\ response' = r
    /\ responses' = Append(responses, r)
    /\ calls' = calls + 1
    /\ issued' = issued + ToolUseCount(r)
    /\ process_query' = TRUE
    /\ pc' = "while"
    /\ UNCHANGED <<messages, assistant_content, aliased, iter, idx,
                   content, events, raised>>
    /\ tools_arg' = tools
    /\ UNCHANGED <<chatVars, toolVars, storeVars, regVars>>

\* client.messages.create raises (either call site): process_query is left
CreateRaises ==
    /\ pc \in {"create_first", "create"}
    /\ calls' = calls + 1
    /\ raised' = "APIError"
    /\ pc' = "raised"
    /\ UNCHANGED <<messages, assistant_content, aliased, response, iter, idx,
                   process_query, content, events, responses, issued>>
    /\ tools_arg' = tools
    /\ UNCHANGED <<chatVars, toolVars, storeVars, regVars>>

\* While as `while True`: the flag is not tested
While_NoTest ==
    /\ pc = "while"
    /\ assistant_content' = <<>>
    /\ aliased' = {}
    /\ iter' = response
    /\ idx' = 1
    /\ pc' = "for"
    /\ UNCHANGED <<messages, response, process_query, content, events,
                   calls, responses, raised, issued>>
    /\ UNCHANGED <<chatVars, toolVars, storeVars, regVars, tools_arg>>

\* lines 390-393: the while test; a new pass binds a fresh assistant_content
\* and starts the for loop over the list response.content denotes now
While ==
    /\ pc = "while"
    /\ IF process_query
       THEN /\ assistant_content' = <<>>
            /\ aliased' = {}
            /\ iter' = response
            /\ idx' = 1
            /\ pc' = "for"
       ELSE /\ pc' = "done"
            /\ UNCHANGED <<assistant_content, aliased, iter, idx>>
    /\ UNCHANGED <<messages, response, process_query, content, events,
                   calls, responses, raised, issued>>
    /\ UNCHANGED <<chatVars, toolVars, storeVars, regVars, tools_arg>>

\* the for loop is exhausted: back to the while test
ForEnd ==
    /\ pc = "for"
    /\ idx > Len(iter)
    /\ pc' = "while"
    /\ UNCHANGED <<messages, assistant_content, aliased, response, iter, idx,
                   process_query, content, events, calls, responses, raised, issued>>
    /\ UNCHANGED <<chatVars, toolVars, storeVars, regVars, tools_arg>>

\* assistant_content.append(b): the list object is shared with every turn
\* of messages that was built from it, so those turns see the new block
AppendContent(msgs, b) ==
    [i \in 1..Len(msgs) |->
        IF i \in aliased
        THEN [msgs[i] EXCEPT !.content = Append(assistant_content, b)]
        ELSE msgs[i]]

\* ForText without line 400: the flag is never cleared by a lone text block
ForText_KeepsFlag ==
    /\ pc = "for"
    /\ idx <= Len(iter)
    /\ IsText(iter[idx])
    /\ Len(events) < MaxEvents
    /\ content' = iter[idx]
    /\ idx' = idx + 1
    /\ events' = Append(events, [kind |-> "text", text |-> iter[idx].text])
    /\ assistant_content' = Append(assistant_content, iter[idx])
    /\ messages' = AppendContent(messages, iter[idx])
    /\ UNCHANGED <<pc, aliased, response, iter, process_query, calls,
                   responses, raised, issued>>
    /\ UNCHANGED <<chatVars, toolVars, storeVars, regVars, tools_arg>>

\* lines 394-400: a text block
ForText ==
    /\ pc = "for"
    /\ idx <= Len(iter)
    /\ IsText(iter[idx])
    /\ Len(events) < MaxEvents
    /\ content' = iter[idx]
    /\ idx' = idx + 1
    /\ events' = Append(events, [kind |-> "text", text |-> iter[idx].text])
    /\ assistant_content' = Append(assistant_content, iter[idx])
    /\ messages' = AppendContent(messages, iter[idx])
    /\ process_query' = IF Len(response) = 1 THEN FALSE ELSE process_query
    /\ UNCHANGED <<pc, aliased, response, iter, calls, responses, raised, issued>>
    /\ UNCHANGED <<chatVars, toolVars, storeVars, regVars, tools_arg>>

\* ForToolUse appending the assistant turn once per pass of the while loop:
\* a later tool_use block of the pass only extends that turn
ForToolUse_OneTurnPerPass ==
    /\ pc = "for"
    /\ idx <= Len(iter)
    /\ IsToolUse(iter[idx])
    /\ Len(events) < MaxEvents
    /\ content' = iter[idx]
    /\ idx' = idx + 1
    /\ assistant_content' = Append(assistant_content, iter[idx])
    /\ IF aliased = {}
       THEN /\ messages' = Append(messages,
                                  [role |-> "assistant",
                                   content |-> Append(assistant_content, iter[idx])])
            /\ aliased' = {Len(messages) + 1}
       ELSE /\ messages' = AppendContent(messages, iter[idx])
            /\ aliased' = aliased
    /\ events' = Append(events, [kind |-> "tool", id |-> iter[idx].id,
                                 name |-> iter[idx].name, input |-> iter[idx].input])
    /\ pc' = "execute_tool"
    /\ UNCHANGED <<response, iter, process_query, calls, responses, raised, issued>>
    /\ UNCHANGED <<chatVars, toolVars, storeVars, regVars, tools_arg>>

\* lines 402-410: a tool_use block, up to the call of execute_tool
ForToolUse ==
    /\ pc = "for"
    /\ idx <= Len(iter)
    /\ IsToolUse(iter[idx])
    /\ Len(events) < MaxEvents
    /\ content' = iter[idx]
    /\ idx' = idx + 1
    /\ assistant_content' = Append(assistant_content, iter[idx])
    /\ messages' = Append(AppendContent(messages, iter[idx]),
                          [role |-> "assistant",
                           content |-> Append(assistant_content, iter[idx])])
    /\ aliased' = aliased \cup {Len(messages) + 1}
    /\ events' = Append(events, [kind |-> "tool", id |-> iter[idx].id,
                                 name |-> iter[idx].name, input |-> iter[idx].input])
    /\ pc' = "execute_tool"
    /\ UNCHANGED <<response, iter, process_query, calls, responses, raised, issued>>
    /\ UNCHANGED <<chatVars, toolVars, storeVars, regVars, tools_arg>>

\* ExecuteTool answering under the token of the first block of
\* assistant_content instead of content.id
ExecuteTool_AnswersFirst ==
    /\ pc = "execute_tool"
    /\ \E o \in execute_tool(content.name, content.input) :
          /\ ~ o.raised
          /\ messages' = Append(messages,
                                [role |-> "user",
                                 content |-> << [type |-> "tool_result",
                                                 tool_use_id |->
                                                     IF IsToolUse(assistant_content[1])
                                                     THEN assistant_content[1].id
                                                     ELSE assistant_content[1].text,
                                                 content |-> o.result] >>])
    /\ pc' = "create"
    /\ UNCHANGED <<assistant_content, aliased, response, iter, idx,
                   process_query, content, events, calls, responses, raised, issued>>
    /\ UNCHANGED <<chatVars, toolVars, storeVars, regVars, tools_arg>>

\* lines 412-421: execute_tool returns and its result is appended
ExecuteTool ==
    /\ pc = "execute_tool"
    /\ \E o \in execute_tool(content.name, content.input) :
          /\ ~ o.raised
          /\ messages' = Append(messages,
                                [role |-> "user",
                                 content |-> << [type |-> "tool_result",
                                                 tool_use_id |-> content.id,
                                                 content |-> o.result] >>])
    /\ pc' = "create"
    /\ UNCHANGED <<assistant_content, aliased, response, iter, idx,
                   process_query, content, events, calls, responses, raised, issued>>
    /\ UNCHANGED <<chatVars, toolVars, storeVars, regVars, tools_arg>>

\* ExecuteToolRaises with the exception swallowed: the block is skipped
ExecuteToolRaises_Skips ==
    /\ pc = "execute_tool"
    /\ \E o \in execute_tool(content.name, content.input) : o.raised
    /\ pc' = "for"
    /\ UNCHANGED <<messages, assistant_content, aliased, response, iter, idx,
                   process_query, content, events, calls, responses, raised, issued>>
    /\ UNCHANGED <<chatVars, toolVars, storeVars, regVars, tools_arg>>

\* line 412: execute_tool raises; nothing in process_query catches it
ExecuteToolRaises ==
    /\ pc = "execute_tool"
    /\ \E o \in execute_tool(content.name, content.input) :
          /\ o.raised
          /\ raised' = o.exc
    /\ pc' = "raised"
    /\ UNCHANGED <<messages, assistant_content, aliased, response, iter, idx,
                   process_query, content, events, calls, responses, issued>>
    /\ UNCHANGED <<chatVars, toolVars, storeVars, regVars, tools_arg>>

\* Create with the call of lines 422-425 made without tools=
Create_NoTools(r) ==
    /\ pc = "create"
    /\ Len(events) < MaxEvents
    /\ response' = r
    /\ responses' = Append(responses, r)
    /\ calls' = calls + 1
    /\ issued' = issued + ToolUseCount(r)
    /\ IF Len(r) = 1 /\ IsText(r[1])
       THEN /\ events' = Append(events, [kind |-> "text", text |-> r[1].text])
            /\ process_query' = FALSE
       ELSE UNCHANGED <<events, process_query>>
    /\ pc' = "for"
    /\ UNCHANGED <<messages, assistant_content, aliased, iter, idx,
                   content, raised>>
    /\ tools_arg' = <<>>
    /\ UNCHANGED <<chatVars, toolVars, storeVars, regVars>>

\* lines 422-429: the call inside the loop returns; the for loop goes on
\* over the list it was started on
Create(r) ==
    /\ pc = "create"
    /\ Len(events) < MaxEvents
    /\ response' = r
    /\ responses' = Append(responses, r)
    /\ calls' = calls + 1
    /\ issued' = issued + ToolUseCount(r)
    /\ IF Len(r) = 1 /\ IsText(r[1])
       THEN /\ events' = Append(events, [kind |-> "text", text |-> r[1].text])
            /\ process_query' = FALSE
       ELSE UNCHANGED <<events, process_query>>
    /\ pc' = "for"
    /\ UNCHANGED <<messages, assistant_content, aliased, iter, idx,
                   content, raised>>
    /\ tools_arg' = tools
    /\ UNCHANGED <<chatVars, toolVars, storeVars, regVars>>

\* the frame of process_query is dropped when it is left; the model keeps
\* the last conversation, so that line 382 alone decides what the next query
\* starts from
DropFrame ==
    /\ assistant_content' = <<>>
    /\ aliased' = {}
    /\ response' = <<>>
    /\ iter' = <<>>
    /\ idx' = 1
    /\ process_query' = TRUE
    /\ content' = <<>>
    /\ events' = <<>>
    /\ calls' = 0
    /\ responses' = <<>>
    /\ raised' = "none"
    /\ tools_arg' = <<>>
    /\ UNCHANGED <<messages, issued>>

\* lines 451-455: an input is read; 'quit' leaves the loop, anything else
\* is handed to process_query
ChatInput(line) ==
    /\ pc = "idle"
    /\ asked < MaxQueries
    /\ asked' = asked + 1
    /\ query' = Strip(line)
    /\ UNCHANGED <<chat_out, toolVars, storeVars, regVars, tools_arg>>
    /\ IF Lower(Strip(line)) = QUIT
       THEN /\ pc' = "exited"
            /\ UNCHANGED <<messages, assistant_content, aliased, response, iter,
                           idx, process_query, content, events, calls,
                           responses, raised, issued>>
       ELSE ProcessQuery(Strip(line))

\* line 456: process_query returned
ChatReturn ==
    /\ UNCHANGED <<toolVars, storeVars, regVars>>
    /\ pc = "done"
    /\ chat_out' = "\n"
    /\ pc' = "idle"
    /\ DropFrame
    /\ UNCHANGED <<query, asked>>

\* ChatExcept without the try of line 454: the exception leaves chat_loop
ChatExcept_Leaves ==
    /\ UNCHANGED <<toolVars, storeVars, regVars>>
    /\ pc = "raised"
    /\ chat_out' = "\nError: " \o raised
    /\ pc' = "exited"
    /\ DropFrame
    /\ UNCHANGED <<query, asked>>

\* lines 457-458: an exception left process_query
ChatExcept ==
    /\ UNCHANGED <<toolVars, storeVars, regVars>>
    /\ pc = "raised"
    /\ chat_out' = "\nError: " \o raised
    /\ pc' = "idle"
    /\ DropFrame
    /\ UNCHANGED <<query, asked>>

Next ==
    \/ \E line \in RawInputs : ChatInput(line)
    \/ ChatReturn
    \/ ChatExcept
    \/ \E r \in Returnable : CreateFirst(r)
    \/ CreateRaises
    \/ While
    \/ ForEnd
    \/ ForText
    \/ ForToolUse
    \/ ExecuteTool
    \/ ExecuteToolRaises
    \/ \E r \in Returnable : Create(r)

Spec == Init /\ [][Next]_vars

----------------------------------------------------------------------------
(* execute_tool on its own, for a capability that may return any value *)

procVars == <<pc, messages, assistant_content, aliased, response, iter, idx,
              process_query, content, events, calls, responses, raised, issued,
              tools_arg>>

\* line 320: the capability returns v
CapabilityReturns(v) ==
    /\ tool_pc \in {"idle", "returned", "raised"}
    /\ raw' = v
    /\ result' = ""
    /\ tool_pc' = "normalize"
    /\ UNCHANGED <<procVars, chatVars, storeVars, regVars>>

\* lines 322-335: the value is normalized and returned
NormalizeReturns ==
    /\ tool_pc = "normalize"
    /\ ~ Normalize(raw).raised
    /\ result' = Normalize(raw).result
    /\ tool_pc' = "returned"
    /\ UNCHANGED <<raw, procVars, chatVars, storeVars, regVars>>

\* line 326: the normalization raises
NormalizeRaises ==
    /\ tool_pc = "normalize"
    /\ Normalize(raw).raised
    /\ result' = Normalize(raw).exc
    /\ tool_pc' = "raised"
    /\ UNCHANGED <<raw, procVars, chatVars, storeVars, regVars>>

NextTool ==
    \/ \E v \in RawValues : CapabilityReturns(v)
    \/ NormalizeReturns
    \/ NormalizeRaises

SpecTool == Init /\ [][NextTool]_vars

----------------------------------------------------------------------------
(* search_papers and extract_info on the papers directory *)

\* short ids arXiv can return
PaperIds == {"1310.7911v2", "2208.00733v1"}

\* topics the model can ask for
Topics == { <<"L", "M">>, <<"l", "m">>, <<"l", " ", "m">>, <<"l", "/", "m">> }

\* str.replace(" ", "_")
Underscored(s) == [i \in 1..Len(s) |-> IF s[i] = " " THEN "_" ELSE s[i]]

\* the components of a relative path: the file system splits it at "/"
RECURSIVE SplitPath(_, _)
SplitPath(s, cur) ==
    IF s = <<>> THEN (IF cur = <<>> THEN <<>> ELSE <<cur>>)
    ELSE IF Head(s) = "/"
    THEN (IF cur = <<>> THEN <<>> ELSE <<cur>>) \o SplitPath(Tail(s), <<>>)
    ELSE SplitPath(Tail(s), Append(cur, Head(s)))

\* line 100: the directory of a topic, as its components below PAPER_DIR
TopicDir(topic) == SplitPath(Underscored(Lower(topic)), <<>>)

\* line 101: os.makedirs creates the directory and every missing parent
Prefixes(path) == {SubSeq(path, 1, k) : k \in 0..Len(path)}

\* lines 116-122: the paper_info built from an arXiv result
PaperInfo(id) ==
    << <<"title", StrV("Paper " \o id)>>, <<"published", StrV("2013-10-29")>> >>

\* what client.results can yield: distinct ids, most relevant first
SearchResults ==
    { f \in UNION { [1..n -> PaperIds] : n \in 0..MaxItems } :
        \A i, j \in 1..Len(f) : i # j => f[i] # f[j] }

\* keys of a dict kept as its items in insertion order
KeysOf(items) == {items[k][1] : k \in 1..Len(items)}

\* Loaded without the read of lines 106-108: every search starts from {}
Loaded_Empty(path) == <<>>

\* lines 106-110: the dict loaded from papers_info.json, {} when the file
\* is missing or is not JSON
Loaded(path) ==
    IF \E f \in files : f.dir = path /\ f.ok
    THEN (CHOOSE f \in files : f.dir = path /\ f.ok).items
    ELSE <<>>

\* line 123: papers_info[id] = PaperInfo(id)
SetItem(items, id) ==
    IF id \in KeysOf(items)
    THEN [k \in 1..Len(items) |->
             IF items[k][1] = id THEN <<id, PaperInfo(id)>> ELSE items[k]]
    ELSE Append(items, <<id, PaperInfo(id)>>)

\* lines 114-123: the loop over the results
RECURSIVE Stored(_, _)
Stored(items, found) ==
    IF found = <<>> THEN items
    ELSE Stored(SetItem(items, Head(found)), Tail(found))

\* lines 75-131: search_papers(topic) returns the ids `found`
SearchPapers(topic, found) ==
    /\ dirs' = dirs \cup Prefixes(TopicDir(topic))
    /\ files' = {f \in files : f.dir # TopicDir(topic)}
                  \cup {[dir |-> TopicDir(topic), ok |-> TRUE,
                         items |-> Stored(Loaded(TopicDir(topic)), found)]}
    /\ store_pc' = "searched"
    /\ store_arg' = topic
    /\ store_ret' = ListV([k \in 1..Len(found) |-> StrV(found[k])])
    /\ UNCHANGED <<procVars, chatVars, toolVars, regVars>>

\* line 114: arXiv fails while the results are read; the directory exists,
\* the file is not touched
SearchPapersRaises(topic) ==
    /\ dirs' = dirs \cup Prefixes(TopicDir(topic))
    /\ store_pc' = "search_raised"
    /\ store_arg' = topic
    /\ store_ret' = StrV("HTTPError")
    /\ UNCHANGED <<files, procVars, chatVars, toolVars, regVars>>

\* lines 126-127: the process is stopped after open(file_path, "w") has
\* truncated the file and before json.dump has written it
SearchPapersKilled(topic) ==
    /\ dirs' = dirs \cup Prefixes(TopicDir(topic))
    /\ files' = {f \in files : f.dir # TopicDir(topic)}
                  \cup {[dir |-> TopicDir(topic), ok |-> FALSE, items |-> <<>>]}
    /\ store_pc' = "search_killed"
    /\ store_arg' = topic
    /\ store_ret' = NoneV
    /\ UNCHANGED <<procVars, chatVars, toolVars, regVars>>

\* the value stored under a key
ItemOf(items, id) ==
    items[CHOOSE k \in 1..Len(items) : items[k][1] = id][2]

\* lines 181-206: extract_info(paper_id), the set of its possible outcomes
\* (os.listdir gives the topic directories in any order)
extract_info(paper_id) ==
    IF <<>> \notin dirs
    THEN { [raised |-> TRUE, exc |-> "FileNotFoundError"] }
    ELSE LET hits == {f \in files : /\ Len(f.dir) = 1
                                      /\ f.ok
                                      /\ paper_id \in KeysOf(f.items)}
         IN  IF hits # {}
             THEN { [raised |-> FALSE,
                     raw |-> StrV(Dumps(ItemOf(f.items, paper_id)))] : f \in hits }
             ELSE { [raised |-> FALSE, raw |-> StrV(NotFound(paper_id))] }

ExtractInfoReturns(paper_id) ==
    /\ \E o \in extract_info(paper_id) :
          /\ ~ o.raised
          /\ store_ret' = o.raw
    /\ store_pc' = "extracted"
    /\ store_arg' = paper_id
    /\ UNCHANGED <<dirs, files, procVars, chatVars, toolVars, regVars>>

\* line 192: os.listdir(PAPER_DIR) is outside the try of line 197
ExtractInfoRaises(paper_id) ==
    /\ \E o \in extract_info(paper_id) :
          /\ o.raised
          /\ store_ret' = StrV(o.exc)
    /\ store_pc' = "extract_raised"
    /\ store_arg' = paper_id
    /\ UNCHANGED <<dirs, files, procVars, chatVars, toolVars, regVars>>

NextStore ==
    \/ \E topic \in Topics, found \in SearchResults : SearchPapers(topic, found)
    \/ \E topic \in Topics : SearchPapersRaises(topic)
    \/ \E topic \in Topics : SearchPapersKilled(topic)
    \/ \E paper_id \in PaperIds : ExtractInfoReturns(paper_id)
    \/ \E paper_id \in PaperIds : ExtractInfoRaises(paper_id)

SpecStore == Init /\ [][NextStore]_vars

----------------------------------------------------------------------------
\* process_query is sequential code: it always takes its next step, and
\* every call it makes returns or raises
FairSpec == Spec /\ WF_vars(Next)

----------------------------------------------------------------------------
(* Views of the conversation and of the output *)

Turns == 1..Len(messages)

IsAssistantTurn(i) == messages[i].role = "assistant"

\* a user-role turn that holds tool results (every user turn but the query)
IsResultTurn(i) == messages[i].role = "user" /\ i > 1

\* ids requested by the tool_use blocks of a list of blocks
ToolUseIds(blocks) ==
    {blocks[k].id : k \in {j \in 1..Len(blocks) : IsToolUse(blocks[j])}}

\* ids answered by a tool-result turn
ResultIds(i) ==
    {messages[i].content[k].tool_use_id : k \in 1..Len(messages[i].content)}

\* tool-result turns that answer a call of the n-th response
ResultTurnsFor(n) ==
    {i \in Turns : IsResultTurn(i) /\ \E id \in ResultIds(i) : id[1] = n}

\* assistant turns built from the n-th response
AssistantTurnsFor(n) ==
    {i \in Turns : IsAssistantTurn(i)
                    /\ \E id \in ToolUseIds(messages[i].content) : id[1] = n}

\* the tool with this id has been announced ("Calling tool ...")
Invoked(id) ==
    \E e \in 1..Len(events) : events[e].kind = "tool" /\ events[e].id = id

\* how often the text of block k of the n-th response has been printed
Emitted(n, k) ==
    Cardinality({e \in 1..Len(events) :
                    events[e].kind = "text" /\ events[e].text = <<n, k>>})

AtCreate == pc \in {"create_first", "create"}

PureText(r) == Len(r) = 1 /\ IsText(r[1])

FirstIsPureText == Len(responses) >= 1 /\ PureText(responses[1])

----------------------------------------------------------------------------
(* Claims *)

\* C1: at every call of client.messages.create, each tool_use id held by an
\* assistant turn is answered by a tool_result with that id in the turn that
\* directly follows the assistant turn.
C1_AllAnsweredAtCreate ==
    AtCreate =>
        \A i \in Turns :
            IsAssistantTurn(i) =>
                /\ i < Len(messages)
                /\ IsResultTurn(i + 1)
                /\ ToolUseIds(messages[i].content) \subseteq ResultIds(i + 1)

\* C2: when process_query has returned, every response with N >= 1 tool_use
\* blocks whose tools were invoked has exactly one tool-result turn, and that
\* turn holds exactly N entries answering exactly the N requested ids.
C2_OneResultTurnPerResponse ==
    pc = "done" =>
        \A n \in 1..Len(responses) :
            (ToolUseCount(responses[n]) >= 1
             /\ \A id \in ToolUseIds(responses[n]) : Invoked(id)) =>
                /\ Cardinality(ResultTurnsFor(n)) = 1
                /\ \A i \in ResultTurnsFor(n) :
                      /\ Len(messages[i].content) = ToolUseCount(responses[n])
                      /\ ResultIds(i) = ToolUseIds(responses[n])

\* C3: process_query returns normally only when the latest response is one
\* text block.
C3_DoneOnlyOnPureText ==
    pc = "done" => PureText(responses[Len(responses)])

\* C4: when the first response is one text block, process_query prints that
\* text exactly once, makes one call of client.messages.create, runs no tool,
\* leaves the conversation at the user turn, and returns.
C4_Safe ==
    FirstIsPureText =>
        /\ calls = 1
        /\ Len(responses) = 1
        /\ pc \in {"while", "for", "done"}
        /\ Len(messages) = 1
        /\ messages[1].role = "user"
        /\ Len(events) <= 1
        /\ \A e \in 1..Len(events) :
              events[e].kind = "text" /\ events[e].text = responses[1][1].text
        /\ pc = "done" => Len(events) = 1

C4_PureTextFirstResponse ==
    /\ [] C4_Safe
    /\ FirstIsPureText ~> (pc = "done")

C4_Witness ==
    /\ pc = "done"
    /\ FirstIsPureText
    /\ events = << [kind |-> "text", text |-> <<1, 1>>] >>
    /\ calls = 1

\* C5: an exception raised by a capability does not leave process_query.
C5_CapabilityErrorNotPropagated ==
    raised \notin {"HTTPError", "FileNotFoundError"}

\* C6: a tool name that mapping_tool_function does not bind does not make
\* process_query raise.
C6_UnknownToolNotPropagated ==
    raised # "KeyError"

\* C7: a response without tool_use block ends the loop: it is the last
\* response received, no tool runs after it, and each of its text blocks is
\* printed at most once.
C7_NoToolCallResponseEnds ==
    \A n \in 1..Len(responses) :
        ToolUseCount(responses[n]) = 0 =>
            /\ n = Len(responses)
            /\ pc \notin {"execute_tool", "create"}
            /\ \A k \in 1..Len(responses[n]) : Emitted(n, k) <= 1

\* C8: when the while test is reached with a response of zero blocks,
\* process_query returns.
C8_EmptyResponseTerminates ==
    (pc = "while" /\ calls >= 1 /\ Len(response) = 0) ~> (pc = "done")

\* C9: no step of process_query changes or removes a turn that is already in
\* messages.
C9_AppendOnly ==
    [][pc # "idle" =>
          \A i \in 1..Len(messages) :
              i <= Len(messages') /\ messages'[i] = messages[i]]_vars

\* C10: when process_query has returned, every response with a tool_use block
\* whose tools were invoked has exactly one assistant turn, holding all blocks
\* of the response in their order.
C10_OneAssistantTurnPerResponse ==
    pc = "done" =>
        \A n \in 1..Len(responses) :
            (ToolUseCount(responses[n]) >= 1
             /\ \A id \in ToolUseIds(responses[n]) : Invoked(id)) =>
                /\ Cardinality(AssistantTurnsFor(n)) = 1
                /\ \A i \in AssistantTurnsFor(n) : messages[i].content = responses[n]

\* the response an event belongs to, and the block's position in it
EventResponse(e) == IF e.kind = "text" THEN e.text[1] ELSE e.id[1]
EventPosition(e) == IF e.kind = "text" THEN e.text[2] ELSE e.id[2]

\* C11: two events of one response of the same kind (text, tool invocation)
\* are printed in the order of their blocks, and every event printed between
\* two events of one response belongs to that response.
C11_OrderWithinResponse ==
    \A i, j \in 1..Len(events) :
        (i < j /\ EventResponse(events[i]) = EventResponse(events[j])) =>
            /\ events[i].kind = events[j].kind =>
                  EventPosition(events[i]) < EventPosition(events[j])
            /\ \A m \in i..j : EventResponse(events[m]) = EventResponse(events[i])

\* C12: the conversation handed to the first client.messages.create of every
\* process_query is the single user turn holding chat_loop's query.
C12_NoMemoryAcrossQueries ==
    pc = "create_first" =>
        messages = << [role |-> "user", content |-> query] >>

C12_Witness ==
    /\ pc = "create_first"
    /\ asked = 2
    /\ issued >= 1
    /\ messages = << [role |-> "user", content |-> <<"L", "L", "M">>] >>

\* the strings of a list of str values, one after the other with ", " between
RECURSIVE CommaJoined(_)
CommaJoined(items) ==
    IF Len(items) = 0 THEN ""
    ELSE IF Len(items) = 1 THEN items[1].value
    ELSE CommaJoined(SubSeq(items, 1, Len(items) - 1))
         \o ", " \o items[Len(items)].value

\* the JSON text of one item of a record
ItemText(pair) ==
    "  \"" \o pair[1] \o "\": "
    \o (IF pair[2].shape = "str" THEN "\"" \o pair[2].value \o "\""
        ELSE ToString(pair[2].value))

\* the items of a record in the record's own order, one per line
RECURSIVE ItemLines(_)
ItemLines(pairs) ==
    IF Len(pairs) = 1 THEN ItemText(pairs[1])
    ELSE ItemLines(SubSeq(pairs, 1, Len(pairs) - 1))
         \o ",\n" \o ItemText(pairs[Len(pairs)])

AllStr(items) == \A i \in 1..Len(items) : items[i].shape = "str"

\* C13: what execute_tool returns is fixed by the shape of the raw value:
\* None gives the placeholder, a list of strings its elements joined by ", "
\* in list order, a dict its JSON text with the keys in the dict's own order,
\* a str itself and any other scalar its str() form.
C13_FixedMapping ==
    tool_pc = "returned" =>
        CASE raw.shape = "none" -> result = PLACEHOLDER
          [] raw.shape = "list" -> AllStr(raw.items) => result = CommaJoined(raw.items)
          [] raw.shape = "dict" ->
                result = IF Len(raw.pairs) = 0 THEN "{}"
                         ELSE "{\n" \o ItemLines(raw.pairs) \o "\n}"
          [] raw.shape = "str" -> result = raw.value
          [] OTHER -> result = ToString(raw.value)

C13_Witness ==
    /\ tool_pc = "returned"
    /\ raw = DictV(<< <<"title", StrV("1310.7911v2")>>, <<"published", IntV(5)>> >>)
    /\ result = "{\n  \"title\": \"1310.7911v2\",\n  \"published\": 5\n}"

\* C14: execute_tool returns a string for every raw value: the normalization
\* never raises.
C14_NormalizationTotal ==
    tool_pc # "raised"

\* C15: an absent result and an empty list both give the placeholder.
C15_EmptyGivesPlaceholder ==
    (tool_pc = "returned" /\ raw \in {NoneV, ListV(<<>>)}) => result = PLACEHOLDER

\* how often the tool with this id has been announced
Announced(id) ==
    Cardinality({e \in 1..Len(events) :
                    events[e].kind = "tool" /\ events[e].id = id})

\* a response whose only tool_use block is its last block
OneToolCallLast(r) ==
    /\ Len(r) >= 1
    /\ ToolUseCount(r) = 1
    /\ IsToolUse(r[Len(r)])

\* the strings execute_tool can return for a tool_use block
ResultsOf(b) ==
    {o.result : o \in {x \in execute_tool(b.name, b.input) : ~ x.raised}}

\* C17: when process_query has returned, every response whose only tool_use
\* block is its last block had its tool announced once, has one assistant
\* turn and one tool-result turn of one entry that holds the normalized
\* result under the request's id, and was followed by a further call of
\* client.messages.create.
C17_SingleToolCallResponse ==
    pc = "done" =>
        \A n \in 1..Len(responses) :
            OneToolCallLast(responses[n]) =>
                LET b == responses[n][Len(responses[n])] IN
                /\ Announced(b.id) = 1
                /\ Cardinality(AssistantTurnsFor(n)) = 1
                /\ Cardinality(ResultTurnsFor(n)) = 1
                /\ \A i \in ResultTurnsFor(n) :
                      /\ Len(messages[i].content) = 1
                      /\ messages[i].content[1].tool_use_id = b.id
                      /\ messages[i].content[1].content \in ResultsOf(b)
                /\ Len(responses) > n

\* C18: the string extract_info returns for a paper without saved information
\* is, character for character, the content of the tool_result appended for
\* that call.
C18_StringVerbatim ==
    \A i \in Turns :
        IsResultTurn(i) =>
            \A k \in 1..Len(messages[i].content) :
                \A e \in 1..Len(events) :
                    (/\ events[e].kind = "tool"
                     /\ events[e].id = messages[i].content[k].tool_use_id
                     /\ events[e].name = "extract_info") =>
                        messages[i].content[k].content
                            = NotFound(events[e].input.paper_id)

C18_Witness ==
    \E i \in Turns :
        /\ IsResultTurn(i)
        /\ messages[i].content[1].content
              = "There's no saved information related to paper 1310.7911v2."

\* C19: an exception of client.messages.create is handled by chat_loop alone:
\* from the state it leaves process_query in, the one step is chat_loop
\* printing the error and asking for the next input, with no tool run, no
\* call of client.messages.create and no turn appended in between; the query
\* after it starts from its own single user turn.
C19_GatewayFailure ==
    /\ [][(pc = "raised" /\ raised = "APIError") =>
              /\ pc' = "idle"
              /\ chat_out' = "\nError: APIError"
              /\ messages' = messages
              /\ issued' = issued]_vars
    /\ [] ((pc = "create_first" /\ chat_out = "\nError: APIError") =>
              messages = << [role |-> "user", content |-> query] >>)

C19_Witness ==
    /\ pc = "create_first"
    /\ chat_out = "\nError: APIError"
    /\ asked = 2
    /\ issued >= 1

\* C20: when process_query has stopped, by return or by exception, every
\* tool_use id held by an assistant turn of messages has a tool_result.
C20_NoUnansweredRequest ==
    pc \in {"done", "raised"} =>
        \A i \in Turns :
            IsAssistantTurn(i) =>
                \A id \in ToolUseIds(messages[i].content) :
                    \E j \in Turns : IsResultTurn(j) /\ id \in ResultIds(j)

\* C21: a tool_use block that lacks a required argument does not make
\* process_query raise.
C21_MissingArgumentTolerated ==
    ~ (/\ pc = "raised"
       /\ raised = "TypeError"
       /\ ~ (Required(content.name) \subseteq DOMAIN content.input))

\* C24: client.messages.create is called inside the loop only when every
\* tool_use block of the response being iterated has its tool_result in
\* messages.
C24_CreateAfterAllTools ==
    pc = "create" =>
        \A id \in ToolUseIds(iter) :
            \E j \in Turns : IsResultTurn(j) /\ id \in ResultIds(j)

\* C25: when process_query has returned, every tool_use block of every
\* response received has been announced exactly once and has its tool_result
\* in messages.
C25_EveryToolCallExecuted ==
    pc = "done" =>
        \A n \in 1..Len(responses) :
            \A id \in ToolUseIds(responses[n]) :
                /\ Announced(id) = 1
                /\ \E j \in Turns : IsResultTurn(j) /\ id \in ResultIds(j)

\* process_query is between line 390 and its return
Running == pc \in {"while", "for", "execute_tool", "create"}

\* C26: once process_query is False, the running process_query prints
\* nothing, announces no tool and makes no call of client.messages.create.
C26_NothingAfterFinalAnswer ==
    [][(Running /\ ~ process_query) =>
          (events' = events /\ calls' = calls)]_vars

\* a response that is neither one text block nor holds a tool_use block
Shapeless(r) == ToolUseCount(r) = 0 /\ ~ PureText(r)

\* C27: a process_query that receives only responses that are one text
\* block or hold a tool_use block, and whose tools all return, comes to an
\* end (the number of tool_use blocks is bounded by MaxToolUses).
C27_Terminates ==
    (pc = "create_first") ~>
        \/ pc \in {"done", "raised"}
        \/ \E n \in 1..Len(responses) : Shapeless(responses[n])

C27_Witness ==
    /\ pc = "done"
    /\ Len(responses) = 3
    /\ \A n \in 1..Len(responses) : ~ Shapeless(responses[n])
    /\ ToolUseCount(responses[1]) = 1
    /\ ToolUseCount(responses[2]) = 1

\* C28: at every call of client.messages.create messages is the user's
\* query followed by pairs of an assistant turn and a tool-result turn.
C28_ConversationShape ==
    AtCreate =>
        /\ Len(messages) % 2 = 1
        /\ messages[1] = [role |-> "user", content |-> query]
        /\ \A i \in Turns :
              messages[i].role = IF i % 2 = 1 THEN "user" ELSE "assistant"

C28_Witness ==
    /\ pc = "create"
    /\ Len(messages) = 5

\* tool-result turns of messages
ResultTurns == {i \in Turns : IsResultTurn(i)}

\* tools announced by line 408
ToolEvents == {e \in 1..Len(events) : events[e].kind = "tool"}

\* C29: at the while test and at the head of the for loop, the calls of
\* client.messages.create made so far are one more than the tools run, and
\* every tool run has its tool-result turn.
C29_CallsAndResults ==
    pc \in {"while", "for"} =>
        /\ calls = 1 + Cardinality(ToolEvents)
        /\ Cardinality(ResultTurns) = Cardinality(ToolEvents)

C29_Witness ==
    /\ pc = "for"
    /\ calls = 3
    /\ Cardinality(ResultTurns) = 2

\* C30: a step that appends a tool-result turn appends one entry, directly
\* after an assistant turn whose last block is the tool_use with the
\* entry's id.
C30_ResultFollowsItsRequest ==
    [][(/\ Len(messages') = Len(messages) + 1
        /\ Len(messages) >= 1
        /\ messages'[Len(messages')].role = "user") =>
          LET res == messages'[Len(messages')]
              prev == messages'[Len(messages)]
          IN  /\ Len(res.content) = 1
              /\ prev.role = "assistant"
              /\ Len(prev.content) >= 1
              /\ IsToolUse(prev.content[Len(prev.content)])
              /\ prev.content[Len(prev.content)].id = res.content[1].tool_use_id]_vars

C30_Witness ==
    /\ pc = "create"
    /\ Len(messages) = 5
    /\ Len(messages[4].content) = 2
    /\ messages[5].content[1].tool_use_id = <<1, 2>>

\* C22: directly after search_papers has returned a list of ids,
\* extract_info of each of them returns the JSON text of the stored
\* paper_info.
C22_SearchThenExtract ==
    store_pc = "searched" =>
        \A k \in 1..Len(store_ret.items) :
            extract_info(store_ret.items[k].value)
                = { [raised |-> FALSE,
                     raw |-> StrV(Dumps(PaperInfo(store_ret.items[k].value)))] }

\* some papers_info.json that can be read holds the id
InSomeFile(paper_id) ==
    \E f \in files : f.ok /\ paper_id \in KeysOf(f.items)

\* C23: extract_info of an id that no readable papers_info.json holds
\* returns the not-found sentence and does not raise.
C23_NotFoundNeverRaises ==
    (store_pc \in {"extracted", "extract_raised"} /\ ~ InSomeFile(store_arg)) =>
        /\ store_pc = "extracted"
        /\ store_ret = StrV(NotFound(store_arg))

\* extract_info finds stored information for the id
Retrievable(paper_id) ==
    \E o \in extract_info(paper_id) :
        ~ o.raised /\ o.raw # StrV(NotFound(paper_id))

\* C33: a search_papers call that runs to its end (return or exception)
\* leaves retrievable every id that was retrievable before it, and
\* extract_info leaves the directories and the files as they are.
C33_StoreOnlyGrows ==
    [][/\ store_pc' \in {"searched", "search_raised"} =>
             \A paper_id \in PaperIds :
                 Retrievable(paper_id) => Retrievable(paper_id)'
       /\ store_pc' \in {"extracted", "extract_raised"} =>
             (dirs' = dirs /\ files' = files)]_vars

C33_Witness ==
    /\ store_pc = "searched"
    /\ store_arg = <<"L", "M">>
    /\ store_ret = ListV(<< StrV("2208.00733v1") >>)
    /\ Retrievable("1310.7911v2")
    /\ \E f \in files :
          /\ f.dir = << <<"l", "m">> >>
          /\ f.ok
          /\ Len(f.items) = 2
          /\ f.items[1][1] = "1310.7911v2"

\* the word quit in any mix of upper and lower case
QuitWord(s) ==
    /\ Len(s) = 4
    /\ s[1] \in {"q", "Q"}
    /\ s[2] \in {"u", "U"}
    /\ s[3] \in {"i", "I"}
    /\ s[4] \in {"t", "T"}

\* C32: chat_loop is left only on an input that is the word quit once
\* stripped, every such input leaves it, process_query never runs on such an
\* input, and an exception that leaves process_query is printed and followed
\* by the next prompt.
C32_QuitOnly ==
    /\ [] (pc = "exited" => QuitWord(query))
    /\ [] (pc \notin {"idle", "exited"} => ~ QuitWord(query))
    /\ [][(pc = "idle" /\ asked' = asked + 1 /\ QuitWord(query')) =>
              pc' = "exited"]_vars
    /\ [][pc = "raised" =>
              (pc' = "idle" /\ chat_out' = "\nError: " \o raised)]_vars

C32_Witness ==
    /\ pc = "exited"
    /\ query = <<"Q", "u", "i", "t">>
    /\ asked = 2
    /\ chat_out = "\nError: KeyError"

\* C31: no step changes mapping_tool_function or tools, and every call of
\* client.messages.create, the first and each later one, is made with the
\* whole schema list.
C31_RegistryAndSchemasFixed ==
    /\ [][mapping_tool_function' = mapping_tool_function /\ tools' = tools]_vars
    /\ [] (calls >= 1 => tools_arg = ToolSchemas)

C31_Witness ==
    /\ pc = "for"
    /\ calls = 3
    /\ Cardinality(ResultTurns) = 2
    /\ tools_arg = ToolSchemas
    /\ mapping_tool_function = {"search_papers", "extract_info"}

====
